---- MODULE Spec2Model ----
(***************************************************************************)
(* Model of the SHTCx temperature/humidity driver                          *)
(* (esphome/components/shtcx/shtcx.cpp): setup, update, the delayed        *)
(* completion registered by update, the frame reader and the CRC-8.        *)
(***************************************************************************)
EXTENDS Integers, Sequences, FiniteSets, TLC

\* ---------------------------------------------------------------- bounds
MaxTicks == 3        \* update ticks explored
MaxWordIdx == 1      \* sensor words the bus may deliver: SampleWord(0..MaxWordIdx)
MaxByteIdx == 1      \* bytes of the frames of the frame-reader specification

\* ------------------------------------------------------ program constants
SHTCX_COMMAND_SLEEP == 45208             \* 0xB098
SHTCX_COMMAND_WAKEUP == 13591            \* 0x3517
SHTCX_COMMAND_READ_ID_REGISTER == 61384  \* 0xEFC8
SHTCX_COMMAND_SOFT_RESET == 32861        \* 0x805D
SHTCX_COMMAND_POLLING_H == 30822         \* 0x7866
TIMEOUT_MS == 50

SHTCXType == {"SHTC3", "SHTC1", "UNKNOWN"}

\* ------------------------------------------------------------ bit helpers
\* bit p (a power of two) of a ^ b, of a & b
XorAt(a, b, p) == IF ((a \div p) % 2) # ((b \div p) % 2) THEN p ELSE 0
AndAt(a, b, p) == IF ((a \div p) % 2) = 1 /\ ((b \div p) % 2) = 1 THEN p ELSE 0

\* a ^ b on the low w bits (w <= 16)
BitXor(a, b, w) ==
  LET x8 == XorAt(a, b, 1) + XorAt(a, b, 2) + XorAt(a, b, 4) + XorAt(a, b, 8)
              + XorAt(a, b, 16) + XorAt(a, b, 32) + XorAt(a, b, 64) + XorAt(a, b, 128)
      x16 == XorAt(a, b, 256) + XorAt(a, b, 512) + XorAt(a, b, 1024)
              + XorAt(a, b, 2048) + XorAt(a, b, 4096) + XorAt(a, b, 8192)
              + XorAt(a, b, 16384) + XorAt(a, b, 32768)
  IN IF w <= 8 THEN x8 % (2 ^ w) ELSE (x8 + x16) % (2 ^ w)

\* a & b on the low w bits (w <= 16)
BitAnd(a, b, w) ==
  LET x8 == AndAt(a, b, 1) + AndAt(a, b, 2) + AndAt(a, b, 4) + AndAt(a, b, 8)
              + AndAt(a, b, 16) + AndAt(a, b, 32) + AndAt(a, b, 64) + AndAt(a, b, 128)
      x16 == AndAt(a, b, 256) + AndAt(a, b, 512) + AndAt(a, b, 1024)
              + AndAt(a, b, 2048) + AndAt(a, b, 4096) + AndAt(a, b, 8192)
              + AndAt(a, b, 16384) + AndAt(a, b, 32768)
  IN IF w <= 8 THEN x8 % (2 ^ w) ELSE (x8 + x16) % (2 ^ w)

\* ------------------------------------------------------------------ CRC-8
\* one iteration of the for loop: crc is a uint8_t, the right-hand side is an
\* int expression truncated by the assignment
\* crc_wide with the polynomial 0x130
crc_wide_poly130(crc) ==
  IF (crc \div 128) % 2 = 1 THEN BitXor(crc * 2, 304, 9) ELSE crc * 2

\* the int the loop body computes before it is stored in the uint8_t crc
crc_wide(crc) ==
  IF (crc \div 128) % 2 = 1                 \* crc & 0x80
    THEN BitXor(crc * 2, 305, 9)            \* (crc << 1) ^ 0x131
    ELSE crc * 2                            \* (crc << 1)

\* crc = ...: the store in the uint8_t
crc_step(crc) == crc_wide(crc) % 256

RECURSIVE crc_loop(_, _)
\* for (bit = 8; bit > 0; --bit) from the value crc
crc_loop(crc, bit) == IF bit = 0 THEN crc ELSE crc_loop(crc_step(crc), bit - 1)

RECURSIVE crc_loop_table(_, _)
\* <<crc_loop(lo, 8), ..., crc_loop(hi, 8)>>
crc_loop_table(lo, hi) ==
  IF lo = hi THEN <<crc_loop(lo, 8)>>
  ELSE LET mid == (lo + hi) \div 2
       IN crc_loop_table(lo, mid) \o crc_loop_table(mid + 1, hi)
\* the for loop tabulated: crc_for[crc + 1] is crc after the 8 iterations
crc_for == crc_loop_table(0, 255)

\* sht_crc without the second crc ^= data2
sht_crc_first_byte(data1, data2) ==
  LET c0 == 255
      c1 == crc_for[BitXor(c0, data1, 8) + 1]
      c2 == crc_for[c1 + 1]
  IN c2

sht_crc(data1, data2) ==
  LET c0 == 255
      c1 == crc_for[BitXor(c0, data1, 8) + 1]
      c2 == crc_for[BitXor(c1, data2, 8) + 1]
  IN c2

\* ----------------------------------------------------------- frame reader
ERROR_OK == "ERROR_OK"
ERROR_BUS == "ERROR"

RECURSIVE read_data_loop_low_byte_first(_, _, _, _)
\* read_data_loop assembling a word as (buf[j + 1] << 8) | buf[j]
read_data_loop_low_byte_first(buf, len, i, data) ==
  IF i >= len THEN [ok |-> TRUE, data |-> data]
  ELSE LET j == (3 * i) % 256
           crc == sht_crc(buf[j + 1], buf[j + 2])
       IN IF crc # buf[j + 3]
            THEN [ok |-> FALSE, data |-> data]
            ELSE read_data_loop_low_byte_first(buf, len, i + 1,
                   Append(data, (buf[j + 2] * 256 + buf[j + 1]) % 65536))

\* the for loop of read_data_, from index i (0-based) with the words stored
\* so far; buf is 1-based here, so buf[j] of the source is buf[j + 1]
RECURSIVE read_data_loop(_, _, _, _)
read_data_loop(buf, len, i, data) ==
  IF i >= len THEN [ok |-> TRUE, data |-> data]
  ELSE LET j == (3 * i) % 256
           crc == sht_crc(buf[j + 1], buf[j + 2])
       IN IF crc # buf[j + 3]
            THEN [ok |-> FALSE, data |-> data]
            ELSE read_data_loop(buf, len, i + 1,
                                Append(data, (buf[j + 1] * 256 + buf[j + 2]) % 65536))

\* number of bytes read_data_ requests from the transport (a uint8_t)
num_bytes(len) == (len * 3) % 256

\* bus is the transport's answer to read(buf, num_bytes): its error code and
\* the bytes it put in the buffer.  data holds the words written to *data.
read_data_(bus, len) ==
  IF bus.code # ERROR_OK THEN [ok |-> FALSE, data |-> <<>>]
  ELSE read_data_loop(bus.bytes, len, 0, <<>>)

\* ----------------------------------------------------------- value decode
\* Published floats.  Both decodes are exact in binary32 (175 * w < 2^24 and
\* the division is by a power of two), so a value is kept as the integer
\* number of 1/65536 units; NAN is the not-a-number marker.
NAN == [nan |-> TRUE, num |-> 0]
Float(n) == [nan |-> FALSE, num |-> n]

\* 175.0f * float(raw) / 65536.0f - 45.0f, in 1/65536 degrees
decode_temperature(raw) == Float(175 * raw - 45 * 65536)
\* 100.0f * float(raw) / 65536.0f, in 1/65536 percent
decode_humidity(raw) == Float(100 * raw)

\* ------------------------------------------------------- identity decode
\* decode_type testing bit 10 (0x400) where the source tests bit 11
decode_type_bit10(device_id_register) ==
  IF BitAnd(device_id_register, 63, 16) = 7
    THEN IF BitAnd(device_id_register, 1024, 16) # 0 THEN "SHTC3" ELSE "SHTC1"
    ELSE "UNKNOWN"

decode_type(device_id_register) ==
  IF BitAnd(device_id_register, 63, 16) = 7
    THEN IF BitAnd(device_id_register, 2048, 16) # 0 THEN "SHTC3" ELSE "SHTC1"
    ELSE "UNKNOWN"

\* ------------------------------------------------------------------ state
VARIABLES
  component_state,      \* "CONSTRUCTION", "LOOP" or "FAILED" (mark_failed)
  type_,                \* DeviceVariant
  sensor_id_,           \* SensorIdentity
  temperature_sensor_,  \* TRUE when the temperature sink is present
  humidity_sensor_,     \* TRUE when the humidity sink is present
  warning,              \* HealthStatus warning flag
  pending,              \* completions registered by set_timeout, not yet run
  temperature_state,    \* last value published to the temperature sink
  humidity_state,       \* last value published to the humidity sink
  last,                 \* the handler that ran last
  trace,                \* operations of the handler that ran last, in order
  bus_in,               \* what the transport answered to the last read
  rd,                   \* result of the last read_data_
  frame,                \* frame reader alone: the frame as the sensor sent it
  ticks,                \* update ticks so far
  polls_ok,             \* update ticks whose poll write succeeded
  timeouts_run,         \* completions run so far
  poll_failed,          \* the poll write of the last update tick failed
  timeout_since,        \* a completion ran since the last update tick
  warning_before,       \* the warning flag when the last handler started
  setup_ok,             \* setup returned without mark_failed
  published_temperature,  \* publish_state calls on the temperature sink so far
  published_humidity,   \* publish_state calls on the humidity sink so far
  cycle                 \* the last completion: what it read and published,
                        \* and whether it read the words of the one before it

vars == <<component_state, type_, sensor_id_, temperature_sensor_,
          humidity_sensor_, warning, pending, temperature_state,
          humidity_state, last, trace, bus_in, rd, frame, ticks, polls_ok,
          timeouts_run, poll_failed, timeout_since, warning_before, setup_ok,
          published_temperature, published_humidity, cycle>>

\* ------------------------------------------------------------ environment
\* words the sensor may return for a measurement (0x0000, 0x8000, 0xFFFF, ...)
SampleWord(k) == (k * 32768 - (k \div 2)) % 65536
SampleWords == { SampleWord(k) : k \in 0..MaxWordIdx }
\* ID register values: an SHTC3 (0x0887), an SHTC1 (0x0007), neither (0x0800)
SampleIds == {2183, 7, 2048}

\* a 3-byte group as the sensor sends it, its checksum damaged or not
Group(w, good) ==
  LET hi == w \div 256
      lo == w % 256
      c == sht_crc(hi, lo)
  IN <<hi, lo, IF good THEN c ELSE (c + 1) % 256>>

RECURSIVE Frames(_, _)
\* the frames of n groups over the words ws
Frames(n, ws) ==
  IF n = 0 THEN {<<>>}
  ELSE { Group(w, g) \o f : w \in ws, g \in BOOLEAN, f \in Frames(n - 1, ws) }

\* what the transport may answer to read(buf, nb)
BusAnswers(nb, ws) ==
  {[code |-> ERROR_BUS, bytes |-> <<>>]}
    \cup { [code |-> ERROR_OK, bytes |-> f] : f \in Frames(nb \div 3, ws) }
\* the answers to setup's read of the ID word and to the completion's read
\* (bus), each with what read_data_ makes of it (r)
IdReads ==
  { [bus |-> b, r |-> read_data_(b, 1)] : b \in BusAnswers(num_bytes(1), SampleIds) }
MeasReads ==
  { [bus |-> b, r |-> read_data_(b, 2)] : b \in BusAnswers(num_bytes(2), SampleWords) }
NoBus == [code |-> "NONE", bytes |-> <<>>]
NoRead == [ok |-> FALSE, data |-> <<>>]

\* ------------------------------------------------- framework collaborators
status_has_warning(w) == w
status_set_warning == TRUE
status_clear_warning == FALSE
mark_failed == "FAILED"
is_failed(cs) == cs = "FAILED"
publish_state(v) == [has_state |-> TRUE, state |-> v]
NoState == [has_state |-> FALSE, state |-> NAN]
\* set_timeout registers one more fire-once completion; the scheduler runs a
\* registered completion once
set_timeout(p) == p + 1
timeout_fired(p) == p - 1
\* can_update without the test for a failed component
can_update_failed_too(cs) == cs # "CONSTRUCTION"

\* the host calls update only for a component that was set up and not failed
can_update(cs) == cs = "LOOP"

\* ---------------------------------------------------------------- commands
Op(op, arg, ok) == [op |-> op, arg |-> arg, ok |-> ok]

\* write_byte(command >> 8, command & 0xFF); ack is the transport's answer
write_command_(command, ack) ==
  Op("write", (command \div 256) * 256 + (command % 256), ack)
soft_reset(ack) == write_command_(SHTCX_COMMAND_SOFT_RESET, ack)
sleep(ack) == write_command_(SHTCX_COMMAND_SLEEP, ack)
wake_up(ack) == write_command_(SHTCX_COMMAND_WAKEUP, ack)

\* position of the first write of command in a trace, 0 when it has none
FirstWrite(tr, command) ==
  LET S == { i \in 1..Len(tr) : tr[i].op = "write" /\ tr[i].arg = command }
  IN IF S = {} THEN 0 ELSE CHOOSE i \in S : \A k \in S : i <= k
Sent(tr, command) == FirstWrite(tr, command) # 0
Count(tr, op) == Cardinality({ i \in 1..Len(tr) : tr[i].op = op })

\* ------------------------------------------------------------------- Init
\* no completion has run yet
NoCycle ==
  [ok |-> FALSE, data |-> <<>>, temperature |-> NoState, humidity |-> NoState,
   warning |-> FALSE, repeated |-> FALSE]

Init ==
  /\ component_state = "CONSTRUCTION"
  /\ type_ \in SHTCXType            \* not assigned before setup
  /\ sensor_id_ \in {0, 65535}      \* not assigned before setup
  /\ temperature_sensor_ \in BOOLEAN
  /\ humidity_sensor_ \in BOOLEAN
  /\ warning = FALSE
  /\ pending = 0
  /\ temperature_state = NoState
  /\ humidity_state = NoState
  /\ last = "none"
  /\ trace = <<>>
  /\ bus_in = NoBus
  /\ rd = NoRead
  /\ frame = <<>>
  /\ ticks = 0
  /\ polls_ok = 0
  /\ timeouts_run = 0
  /\ poll_failed = FALSE
  /\ timeout_since = FALSE
  /\ warning_before = FALSE
  /\ setup_ok = FALSE
  /\ published_temperature = 0
  /\ published_humidity = 0
  /\ cycle = NoCycle

\* ------------------------------------------------------------------ setup
\* setup_abort without the mark_failed() call
setup_abort_unmarked(tr, bus, r) ==
  /\ component_state' = "LOOP"
  /\ setup_ok' = FALSE
  /\ trace' = tr
  /\ bus_in' = bus
  /\ rd' = r
  /\ UNCHANGED <<type_, sensor_id_>>

\* setup_abort resetting the identity to Unknown and 0 before it returns
setup_abort_resets_identity(tr, bus, r) ==
  /\ component_state' = mark_failed
  /\ setup_ok' = FALSE
  /\ trace' = tr
  /\ bus_in' = bus
  /\ rd' = r
  /\ type_' = "UNKNOWN"
  /\ sensor_id_' = 0

\* mark_failed(); return;  (after the ReadID write or the ID read failed)
setup_abort(tr, bus, r) ==
  /\ component_state' = mark_failed
  /\ setup_ok' = FALSE
  /\ trace' = tr
  /\ bus_in' = bus
  /\ rd' = r
  /\ UNCHANGED <<type_, sensor_id_>>

\* the ID word was read: store it and decode the variant
setup_identify(tr, bus, r) ==
  /\ sensor_id_' = r.data[1]
  /\ type_' = decode_type(r.data[1])
  /\ component_state' = "LOOP"
  /\ setup_ok' = TRUE
  /\ trace' = tr
  /\ bus_in' = bus
  /\ rd' = r

\* setup_commands with the soft reset sent before the wake-up
setup_commands_reset_first(wk_ack, sr_ack, id_ack) ==
  <<soft_reset(sr_ack), wake_up(wk_ack),
    write_command_(SHTCX_COMMAND_READ_ID_REGISTER, id_ack)>>

\* the commands setup sends before it reads: wake_up(), soft_reset(), ReadID
setup_commands(wk_ack, sr_ack, id_ack) ==
  <<wake_up(wk_ack), soft_reset(sr_ack),
    write_command_(SHTCX_COMMAND_READ_ID_REGISTER, id_ack)>>

\* setup with the write acknowledgements drawn from acks and the answer to
\* its read from reads
setup_from(acks, reads) ==
  /\ component_state = "CONSTRUCTION"
  /\ \E wk_ack \in acks, sr_ack \in acks, id_ack \in acks :
       \E x \in reads :
         LET bus == x.bus
             t3 == setup_commands(wk_ack, sr_ack, id_ack)
             r == x.r
             t4 == Append(t3, Op("read", num_bytes(1), bus.code = ERROR_OK))
         IN IF ~id_ack THEN setup_abort(t3, NoBus, NoRead)
            ELSE IF ~r.ok THEN setup_abort(t4, bus, r)
            ELSE setup_identify(t4, bus, r)
  /\ last' = "setup"
  /\ warning_before' = warning
  /\ UNCHANGED <<temperature_sensor_, humidity_sensor_, warning, pending,
                 temperature_state, humidity_state, ticks, polls_ok,
                 timeouts_run, poll_failed, timeout_since, frame,
                 published_temperature, published_humidity, cycle>>

setup == setup_from(BOOLEAN, IdReads)

\* ----------------------------------------------------------------- update
\* update_wakes testing for the SHTC3 alone
update_wakes_shtc3(t) == t = "SHTC3"

\* type_ != SHTCX_TYPE_SHTC1, the test before wake_up() in update
update_wakes(t) == t # "SHTC1"

\* update_prefix with the soft reset nested in the wake-up branch
update_prefix_nested(w, t, sr_ack, wk_ack) ==
  IF update_wakes(t)
    THEN (IF status_has_warning(w) THEN <<soft_reset(sr_ack)>> ELSE <<>>)
           \o <<wake_up(wk_ack)>>
    ELSE <<>>

\* update_prefix with the wake-up sent before the soft reset
update_prefix_wake_first(w, t, sr_ack, wk_ack) ==
  (IF update_wakes(t) THEN <<wake_up(wk_ack)>> ELSE <<>>)
    \o (IF status_has_warning(w) THEN <<soft_reset(sr_ack)>> ELSE <<>>)

\* the commands update sends before the poll command
update_prefix(w, t, sr_ack, wk_ack) ==
  (IF status_has_warning(w) THEN <<soft_reset(sr_ack)>> ELSE <<>>)
    \o (IF update_wakes(t) THEN <<wake_up(wk_ack)>> ELSE <<>>)

\* update_poll_failed without its return: the completion is registered too
update_poll_failed_no_return(tr) ==
  /\ temperature_state' =
       IF temperature_sensor_ THEN publish_state(NAN) ELSE temperature_state
  /\ humidity_state' =
       IF humidity_sensor_ THEN publish_state(NAN) ELSE humidity_state
  /\ warning' = status_set_warning
  /\ pending' = set_timeout(pending)
  /\ trace' = Append(tr
       \o (IF temperature_sensor_ THEN <<Op("publish_temperature", 0, TRUE)>> ELSE <<>>)
       \o (IF humidity_sensor_ THEN <<Op("publish_humidity", 0, TRUE)>> ELSE <<>>),
       Op("set_timeout", TIMEOUT_MS, TRUE))
  /\ published_temperature' =
       IF temperature_sensor_ THEN published_temperature + 1
       ELSE published_temperature
  /\ published_humidity' =
       IF humidity_sensor_ THEN published_humidity + 1 ELSE published_humidity
  /\ UNCHANGED component_state

\* update_poll_failed calling mark_failed() where it sets the warning
update_poll_failed_marks(tr) ==
  /\ temperature_state' =
       IF temperature_sensor_ THEN publish_state(NAN) ELSE temperature_state
  /\ humidity_state' =
       IF humidity_sensor_ THEN publish_state(NAN) ELSE humidity_state
  /\ component_state' = mark_failed
  /\ trace' = tr
       \o (IF temperature_sensor_ THEN <<Op("publish_temperature", 0, TRUE)>> ELSE <<>>)
       \o (IF humidity_sensor_ THEN <<Op("publish_humidity", 0, TRUE)>> ELSE <<>>)
  /\ published_temperature' =
       IF temperature_sensor_ THEN published_temperature + 1
       ELSE published_temperature
  /\ published_humidity' =
       IF humidity_sensor_ THEN published_humidity + 1 ELSE published_humidity
  /\ UNCHANGED <<pending, warning>>

\* update_poll_failed publishing to the humidity sink only when the
\* temperature sink is present too
update_poll_failed_nested_sinks(tr) ==
  /\ temperature_state' =
       IF temperature_sensor_ THEN publish_state(NAN) ELSE temperature_state
  /\ humidity_state' =
       IF temperature_sensor_ /\ humidity_sensor_ THEN publish_state(NAN)
       ELSE humidity_state
  /\ warning' = status_set_warning
  /\ trace' = tr
       \o (IF temperature_sensor_ THEN <<Op("publish_temperature", 0, TRUE)>> ELSE <<>>)
       \o (IF temperature_sensor_ /\ humidity_sensor_
             THEN <<Op("publish_humidity", 0, TRUE)>> ELSE <<>>)
  /\ published_temperature' =
       IF temperature_sensor_ THEN published_temperature + 1
       ELSE published_temperature
  /\ published_humidity' =
       IF temperature_sensor_ /\ humidity_sensor_ THEN published_humidity + 1
       ELSE published_humidity
  /\ UNCHANGED <<pending, component_state>>

\* update_poll_failed putting the sensor to sleep before it returns
update_poll_failed_sleeps(tr) ==
  /\ temperature_state' =
       IF temperature_sensor_ THEN publish_state(NAN) ELSE temperature_state
  /\ humidity_state' =
       IF humidity_sensor_ THEN publish_state(NAN) ELSE humidity_state
  /\ warning' = status_set_warning
  /\ trace' = tr
       \o (IF temperature_sensor_ THEN <<Op("publish_temperature", 0, TRUE)>> ELSE <<>>)
       \o (IF humidity_sensor_ THEN <<Op("publish_humidity", 0, TRUE)>> ELSE <<>>)
       \o (IF update_wakes(type_) THEN <<sleep(TRUE)>> ELSE <<>>)
  /\ published_temperature' =
       IF temperature_sensor_ THEN published_temperature + 1
       ELSE published_temperature
  /\ published_humidity' =
       IF humidity_sensor_ THEN published_humidity + 1 ELSE published_humidity
  /\ UNCHANGED <<pending, component_state>>

\* the poll write failed: publish NAN to the present sinks, set the warning,
\* return
update_poll_failed(tr) ==
  /\ temperature_state' =
       IF temperature_sensor_ THEN publish_state(NAN) ELSE temperature_state
  /\ humidity_state' =
       IF humidity_sensor_ THEN publish_state(NAN) ELSE humidity_state
  /\ warning' = status_set_warning
  /\ trace' = tr
       \o (IF temperature_sensor_ THEN <<Op("publish_temperature", 0, TRUE)>> ELSE <<>>)
       \o (IF humidity_sensor_ THEN <<Op("publish_humidity", 0, TRUE)>> ELSE <<>>)
  /\ published_temperature' =
       IF temperature_sensor_ THEN published_temperature + 1
       ELSE published_temperature
  /\ published_humidity' =
       IF humidity_sensor_ THEN published_humidity + 1 ELSE published_humidity
  /\ UNCHANGED <<pending, component_state>>

\* update_poll_ok registering the completion twice
update_poll_ok_twice(tr) ==
  /\ pending' = set_timeout(set_timeout(pending))
  /\ trace' = Append(tr, Op("set_timeout", TIMEOUT_MS, TRUE))
  /\ UNCHANGED <<temperature_state, humidity_state, warning, component_state,
                 published_temperature, published_humidity>>

\* the poll write succeeded: register the delayed completion
update_poll_ok(tr) ==
  /\ pending' = set_timeout(pending)
  /\ trace' = Append(tr, Op("set_timeout", TIMEOUT_MS, TRUE))
  /\ UNCHANGED <<temperature_state, humidity_state, warning, component_state,
                 published_temperature, published_humidity>>

update ==
  /\ can_update(component_state)
  /\ ticks < MaxTicks
  /\ \E sr_ack, wk_ack, poll_ack \in BOOLEAN :
       LET tr == Append(update_prefix(warning, type_, sr_ack, wk_ack),
                        write_command_(SHTCX_COMMAND_POLLING_H, poll_ack))
       IN /\ IF ~poll_ack THEN update_poll_failed(tr) ELSE update_poll_ok(tr)
          /\ poll_failed' = ~poll_ack
          /\ polls_ok' = IF poll_ack THEN polls_ok + 1 ELSE polls_ok
  /\ ticks' = ticks + 1
  /\ last' = "update"
  /\ timeout_since' = FALSE
  /\ warning_before' = warning
  /\ bus_in' = NoBus
  /\ rd' = NoRead
  /\ UNCHANGED <<type_, sensor_id_, temperature_sensor_, humidity_sensor_,
                 timeouts_run, setup_ok, frame, cycle>>

\* ------------------------------------------- the completion update registers
\* timeout_warning clearing the flag nowhere
timeout_warning_kept(w, ok) == IF ~ok THEN status_set_warning ELSE w

\* the warning flag after the lambda: set when the read failed, then the
\* status_clear_warning() after the publishes
timeout_warning(w, ok) ==
  LET w1 == IF ~ok THEN status_set_warning ELSE w
      w2 == status_clear_warning
  IN w2

\* timeout_temperature decoding whatever word read_data_ stored
timeout_temperature_partial(r) ==
  IF Len(r.data) >= 1 THEN decode_temperature(r.data[1]) ELSE NAN

\* timeout_temperature smoothing the new value with the one published before
timeout_temperature_smoothed(r) ==
  IF ~r.ok THEN NAN
  ELSE IF temperature_state.has_state /\ ~temperature_state.state.nan
    THEN Float((temperature_state.state.num
                  + decode_temperature(r.data[1]).num) \div 2)
    ELSE decode_temperature(r.data[1])

\* the values the lambda publishes
timeout_temperature(r) == IF ~r.ok THEN NAN ELSE decode_temperature(r.data[1])
timeout_humidity(r) == IF ~r.ok THEN NAN ELSE decode_humidity(r.data[2])

\* timeout_sleeps testing for the SHTC3 alone
timeout_sleeps_shtc3(t) == t = "SHTC3"

\* type_ != SHTCX_TYPE_SHTC1, the test before sleep() in the lambda
timeout_sleeps(t) == t # "SHTC1"

timeout ==
  /\ pending > 0
  /\ \E sl_ack \in BOOLEAN :
       \E x \in MeasReads :
         LET bus == x.bus
             r == x.r
         IN /\ bus_in' = bus
            /\ rd' = r
            /\ temperature_state' =
                 IF temperature_sensor_ THEN publish_state(timeout_temperature(r))
                 ELSE temperature_state
            /\ humidity_state' =
                 IF humidity_sensor_ THEN publish_state(timeout_humidity(r))
                 ELSE humidity_state
            /\ warning' = timeout_warning(warning, r.ok)
            /\ cycle' = [ok |-> r.ok,
                         data |-> IF r.ok THEN r.data ELSE <<>>,
                         temperature |-> temperature_state',
                         humidity |-> humidity_state',
                         warning |-> warning',
                         repeated |-> r.ok /\ cycle.ok /\ cycle.data = r.data]
            /\ trace' = <<Op("read", num_bytes(2), bus.code = ERROR_OK)>>
                 \o (IF temperature_sensor_ THEN <<Op("publish_temperature", 0, TRUE)>> ELSE <<>>)
                 \o (IF humidity_sensor_ THEN <<Op("publish_humidity", 0, TRUE)>> ELSE <<>>)
                 \o (IF timeout_sleeps(type_) THEN <<sleep(sl_ack)>> ELSE <<>>)
  /\ published_temperature' =
       IF temperature_sensor_ THEN published_temperature + 1
       ELSE published_temperature
  /\ published_humidity' =
       IF humidity_sensor_ THEN published_humidity + 1 ELSE published_humidity
  /\ pending' = timeout_fired(pending)
  /\ timeouts_run' = timeouts_run + 1
  /\ last' = "timeout"
  /\ timeout_since' = TRUE
  /\ warning_before' = warning
  /\ UNCHANGED <<component_state, type_, sensor_id_, temperature_sensor_,
                 humidity_sensor_, ticks, polls_ok, poll_failed, setup_ok, frame>>

Next == setup \/ update \/ timeout

Spec == Init /\ [][Next]_vars

\* ------------------------------------------- the frame reader on its own
\* read_data_ applied to frames of 1 and 2 words as the sensor sends them,
\* intact or with one byte replaced by any other value on the way.
SampleByte(k) == (190 + 49 * k) % 256          \* 0xBE, 0xEF, ...
SampleBytes == { SampleByte(k) : k \in 0..MaxByteIdx }

RECURSIVE IntactFrames(_)
IntactFrames(n) ==
  IF n = 0 THEN {<<>>}
  ELSE { <<hi, lo, sht_crc(hi, lo)>> \o f :
           hi \in SampleBytes, lo \in SampleBytes, f \in IntactFrames(n - 1) }

FrameInit ==
  /\ frame \in IntactFrames(1) \cup IntactFrames(2)
  /\ component_state = "CONSTRUCTION"
  /\ type_ = "UNKNOWN"
  /\ sensor_id_ = 0
  /\ temperature_sensor_ = TRUE
  /\ humidity_sensor_ = TRUE
  /\ warning = FALSE
  /\ pending = 0
  /\ temperature_state = NoState
  /\ humidity_state = NoState
  /\ last = "none"
  /\ trace = <<>>
  /\ bus_in = NoBus
  /\ rd = NoRead
  /\ ticks = 0
  /\ polls_ok = 0
  /\ timeouts_run = 0
  /\ poll_failed = FALSE
  /\ timeout_since = FALSE
  /\ warning_before = FALSE
  /\ setup_ok = FALSE
  /\ published_temperature = 0
  /\ published_humidity = 0
  /\ cycle = NoCycle

\* the caller reads Len(frame) / 3 words and the transport answers bus
frame_read(bus) ==
  /\ last = "none"
  /\ bus_in' = bus
  /\ rd' = read_data_(bus, Len(frame) \div 3)
  /\ trace' = <<Op("read", num_bytes(Len(frame) \div 3), bus.code = ERROR_OK)>>
  /\ last' = "read_data_"
  /\ UNCHANGED <<component_state, type_, sensor_id_, temperature_sensor_,
                 humidity_sensor_, warning, pending, temperature_state,
                 humidity_state, frame, ticks, polls_ok, timeouts_run,
                 poll_failed, timeout_since, warning_before, setup_ok,
                 published_temperature, published_humidity, cycle>>

frame_intact == frame_read([code |-> ERROR_OK, bytes |-> frame])

frame_damaged ==
  \E pos \in 1..Len(frame) : \E v \in (0..255) \ {frame[pos]} :
    frame_read([code |-> ERROR_OK, bytes |-> [frame EXCEPT ![pos] = v]])

frame_lost == frame_read([code |-> ERROR_BUS, bytes |-> <<>>])

FrameNext == frame_intact \/ frame_damaged \/ frame_lost

FrameSpec == FrameInit /\ [][FrameNext]_vars

\* ------------------------------------------------- the checksum on its own
\* sht_crc called once with any two bytes; frame holds them and the result
CrcInit ==
  /\ FrameInit
  /\ frame = <<190, 239, sht_crc(190, 239)>>

crc_call ==
  /\ last = "none"
  /\ \E data1 \in 0..255, data2 \in 0..255 :
       frame' = <<data1, data2, sht_crc(data1, data2)>>
  /\ last' = "sht_crc"
  /\ UNCHANGED <<component_state, type_, sensor_id_, temperature_sensor_,
                 humidity_sensor_, warning, pending, temperature_state,
                 humidity_state, trace, bus_in, rd, ticks, polls_ok,
                 timeouts_run, poll_failed, timeout_since, warning_before,
                 setup_ok, published_temperature, published_humidity, cycle>>

CrcNext == crc_call

CrcSpec == CrcInit /\ [][CrcNext]_vars

\* ------------------------------------------- the identification on its own
\* setup with every write acknowledged and any 16-bit ID word delivered intact
AllIdReads ==
  { [bus |-> b, r |-> read_data_(b, 1)] :
      b \in { [code |-> ERROR_OK, bytes |-> Group(w, TRUE)] : w \in 0..65535 } }

IdInit ==
  /\ Init
  /\ type_ = "SHTC1"
  /\ sensor_id_ = 0
  /\ temperature_sensor_
  /\ humidity_sensor_

setup_identified == setup_from({TRUE}, AllIdReads)

IdNext == setup_identified

IdSpec == IdInit /\ [][IdNext]_vars

\* the host scheduler is healthy: a registered completion eventually runs
FairSpec == Spec /\ WF_vars(timeout)

\* ------------------------------------------------------------ properties
SinksHold(t, h) ==
  /\ temperature_sensor_ => temperature_state = [has_state |-> TRUE, state |-> t]
  /\ humidity_sensor_ => humidity_state = [has_state |-> TRUE, state |-> h]

\* the transport delivered a frame and one of its n groups fails its checksum
CrcMismatch(bus, n) ==
  /\ bus.code = ERROR_OK
  /\ \E i \in 0..(n - 1) :
       bus.bytes[3 * i + 3] # sht_crc(bus.bytes[3 * i + 1], bus.bytes[3 * i + 2])

\* the completion's read failed: the transport failed or a checksum did
ReadFailed(bus, n) == bus.code = ERROR_BUS \/ CrcMismatch(bus, n)

SoftResetBeforePoll(tr) ==
  /\ Sent(tr, SHTCX_COMMAND_SOFT_RESET)
  /\ Sent(tr, SHTCX_COMMAND_POLLING_H)
  /\ FirstWrite(tr, SHTCX_COMMAND_SOFT_RESET) < FirstWrite(tr, SHTCX_COMMAND_POLLING_H)

\* C1: when the completion's read of 2 words fails (transport error or CRC
\* mismatch), the warning flag is set when the completion finishes.
C1_WarningSetAfterFailedRead ==
  (last = "timeout" /\ ReadFailed(bus_in, 2)) => warning

\* C2 as claimed: an update tick that follows a tick whose poll write failed
\* sends SoftReset before PollHighPrecision, whatever ran in between.
C2_ResetAfterFailedPoll ==
  [][(ticks' = ticks + 1 /\ poll_failed) => SoftResetBeforePoll(trace')]_vars

\* C2 amended: an update tick that follows a tick whose poll write failed,
\* with no completion run between the two ticks, sends SoftReset before
\* PollHighPrecision.
C2_ResetAfterFailedPollNoCompletion ==
  [][(ticks' = ticks + 1 /\ poll_failed /\ ~timeout_since)
       => SoftResetBeforePoll(trace')]_vars

\* a tick that followed a failed poll with no completion in between has run
C2_Witness ==
  /\ last = "update"
  /\ ticks >= 2
  /\ warning_before
  /\ timeouts_run = 0
  /\ polls_ok = 0
  /\ SoftResetBeforePoll(trace)

\* C3: an update tick whose poll write fails publishes NAN to every present
\* sink, sets the warning flag, registers no completion and performs no bus
\* read and no Sleep (the poll is the last command it sends).
C3_FailedPollTick ==
  [][(ticks' = ticks + 1 /\ poll_failed') =>
       /\ SinksHold(NAN, NAN)'
       /\ warning'
       /\ pending' = pending
       /\ Count(trace', "set_timeout") = 0
       /\ Count(trace', "read") = 0
       /\ ~Sent(trace', SHTCX_COMMAND_SLEEP)
       /\ \A i \in 1..Len(trace') :
            trace'[i].op = "write" => i <= FirstWrite(trace', SHTCX_COMMAND_POLLING_H)]_vars

\* a tick with both sinks present has failed its poll
C3_Witness ==
  /\ last = "update"
  /\ poll_failed
  /\ temperature_sensor_ /\ humidity_sensor_
  /\ temperature_state = [has_state |-> TRUE, state |-> NAN]
  /\ humidity_state = [has_state |-> TRUE, state |-> NAN]
  /\ warning
  /\ pending = 0

\* a write of command in the trace was not acknowledged
WriteFailed(tr, command) ==
  \E i \in 1..Len(tr) : tr[i].op = "write" /\ tr[i].arg = command /\ ~tr[i].ok

\* C4 as claimed: in setup a failed write of WakeUp, SoftReset or ReadID, or a
\* failed read of the ID word, marks the component failed.
C4_AnySetupFailureIsFatal ==
  (/\ last = "setup"
   /\ \/ WriteFailed(trace, SHTCX_COMMAND_WAKEUP)
      \/ WriteFailed(trace, SHTCX_COMMAND_SOFT_RESET)
      \/ WriteFailed(trace, SHTCX_COMMAND_READ_ID_REGISTER)
      \/ ReadFailed(bus_in, 1))
    => is_failed(component_state)

\* C4 amended: in setup a failed ReadID write or a failed read of the ID word
\* marks the component failed and aborts the rest of setup (no read after a
\* failed ReadID write, no identification after a failed read); failed
\* WakeUp and SoftReset writes are ignored and setup goes on.
C4_ReadIdFailureIsFatal ==
  last = "setup" =>
    /\ (WriteFailed(trace, SHTCX_COMMAND_READ_ID_REGISTER) \/ ReadFailed(bus_in, 1))
         => (is_failed(component_state) /\ ~setup_ok)
    /\ WriteFailed(trace, SHTCX_COMMAND_READ_ID_REGISTER) => Count(trace, "read") = 0
    /\ (~WriteFailed(trace, SHTCX_COMMAND_READ_ID_REGISTER) /\ bus_in.code = ERROR_OK
          /\ ~CrcMismatch(bus_in, 1))
         => (~is_failed(component_state) /\ setup_ok)
    /\ Sent(trace, SHTCX_COMMAND_WAKEUP) /\ Sent(trace, SHTCX_COMMAND_SOFT_RESET)
    /\ Sent(trace, SHTCX_COMMAND_READ_ID_REGISTER)

\* setup was aborted by a checksum mismatch in the ID word, after WakeUp and
\* SoftReset writes that were acknowledged
C4_Witness ==
  /\ last = "setup"
  /\ ~WriteFailed(trace, SHTCX_COMMAND_WAKEUP)
  /\ ~WriteFailed(trace, SHTCX_COMMAND_SOFT_RESET)
  /\ ~WriteFailed(trace, SHTCX_COMMAND_READ_ID_REGISTER)
  /\ CrcMismatch(bus_in, 1)
  /\ is_failed(component_state)

\* word i (0-based) of the frame the transport delivered
BusWord(bus, i) == bus.bytes[3 * i + 1] * 256 + bus.bytes[3 * i + 2]

\* C5: a completion whose read succeeds ends with the warning flag cleared
\* and with 175 * word[0] / 65536 - 45 and 100 * word[1] / 65536 published,
\* also when the warning flag was set by an earlier failed cycle.
C5_SuccessClearsWarning ==
  (last = "timeout" /\ bus_in.code = ERROR_OK /\ ~CrcMismatch(bus_in, 2)) =>
    /\ ~warning
    /\ SinksHold([nan |-> FALSE, num |-> 175 * BusWord(bus_in, 0) - 2949120],
                 [nan |-> FALSE, num |-> 100 * BusWord(bus_in, 1)])

\* after a failed poll set the warning, a cycle read 0x8000 and 0x8000 and
\* published 42.5 degrees and 50 percent with the warning cleared
C5_Witness ==
  /\ last = "timeout"
  /\ warning_before
  /\ bus_in.code = ERROR_OK
  /\ rd.ok
  /\ BusWord(bus_in, 0) = 32768 /\ BusWord(bus_in, 1) = 32768
  /\ temperature_state = [has_state |-> TRUE, state |-> [nan |-> FALSE, num |-> 2785280]]
  /\ humidity_state = [has_state |-> TRUE, state |-> [nan |-> FALSE, num |-> 3276800]]
  /\ ~warning
  /\ ~is_failed(component_state)

\* C6: every update tick whose poll write succeeds registers exactly one
\* completion and a tick whose poll fails none; a completion runs only when
\* one is registered, one at a time and never in the step of an update tick;
\* the completions run and pending always add up to the successful polls;
\* and again and again no completion is left pending (each one registered
\* eventually runs).
C6_OneCompletionPerPoll ==
  /\ [](timeouts_run + pending = polls_ok /\ pending >= 0)
  /\ [][/\ (ticks' = ticks + 1 /\ ~poll_failed')
              => (pending' = pending + 1 /\ timeouts_run' = timeouts_run)
        /\ (ticks' = ticks + 1 /\ poll_failed')
              => (pending' = pending /\ timeouts_run' = timeouts_run)
        /\ (timeouts_run' # timeouts_run)
              => /\ timeouts_run' = timeouts_run + 1
                 /\ pending > 0
                 /\ pending' = pending - 1
                 /\ ticks' = ticks
                 /\ polls_ok > timeouts_run]_vars
  /\ []<>(pending = 0)

\* two polls succeeded, one failed, and every registered completion has run
C6_Witness ==
  /\ polls_ok >= 2
  /\ timeouts_run = polls_ok
  /\ pending = 0
  /\ ticks > polls_ok
  /\ last = "timeout"

\* C8: a completion whose read failed, by a transport error or by a checksum
\* mismatch in either word, publishes NAN to every present sink, also when
\* word 0 passed its checksum and was stored before word 1 failed.
C8_FailedReadPublishesNaN ==
  (last = "timeout" /\ ReadFailed(bus_in, 2)) => SinksHold(NAN, NAN)

\* word 0 passed its checksum and was stored, word 1 failed, NAN went out
C8_Witness ==
  /\ last = "timeout"
  /\ bus_in.code = ERROR_OK
  /\ bus_in.bytes[3] = sht_crc(bus_in.bytes[1], bus_in.bytes[2])
  /\ bus_in.bytes[6] # sht_crc(bus_in.bytes[4], bus_in.bytes[5])
  /\ rd.data = <<BusWord(bus_in, 0)>>
  /\ temperature_sensor_ /\ humidity_sensor_
  /\ temperature_state = [has_state |-> TRUE, state |-> NAN]
  /\ humidity_state = [has_state |-> TRUE, state |-> NAN]

IsWrite(e, command) == e.op = "write" /\ e.arg = command

\* C9: an update tick sends WakeUp, before the poll, exactly when the variant
\* is not SHTC1, and sends no Sleep; a completion sends Sleep exactly when
\* the variant is not SHTC1, as its last operation and whatever the read
\* gave, and sends no WakeUp.
C9_WakeAndSleepUnlessShtc1 ==
  /\ last = "update" =>
       /\ Sent(trace, SHTCX_COMMAND_WAKEUP) <=> type_ # "SHTC1"
       /\ Sent(trace, SHTCX_COMMAND_WAKEUP) =>
            FirstWrite(trace, SHTCX_COMMAND_WAKEUP)
              < FirstWrite(trace, SHTCX_COMMAND_POLLING_H)
       /\ ~Sent(trace, SHTCX_COMMAND_SLEEP)
  /\ last = "timeout" =>
       /\ Sent(trace, SHTCX_COMMAND_SLEEP) <=> type_ # "SHTC1"
       /\ Sent(trace, SHTCX_COMMAND_SLEEP) =>
            /\ IsWrite(trace[Len(trace)], SHTCX_COMMAND_SLEEP)
            /\ FirstWrite(trace, SHTCX_COMMAND_SLEEP) = Len(trace)
       /\ ~Sent(trace, SHTCX_COMMAND_WAKEUP)

\* a completion on a device of unknown variant failed its read and sent Sleep
C9_Witness ==
  /\ last = "timeout"
  /\ type_ = "UNKNOWN"
  /\ ReadFailed(bus_in, 2)
  /\ IsWrite(trace[Len(trace)], SHTCX_COMMAND_SLEEP)

\* C10: once setup has succeeded the component is never marked failed,
\* whatever writes and reads fail in update ticks and completions.
C10_NoFailureAfterSetup ==
  setup_ok => (~is_failed(component_state) /\ component_state = "LOOP")

\* after a successful setup a poll failed, a SoftReset was not acknowledged,
\* and a completion failed its read and its Sleep write
C10_Witness ==
  /\ setup_ok
  /\ poll_failed
  /\ last = "timeout"
  /\ ReadFailed(bus_in, 2)
  /\ WriteFailed(trace, SHTCX_COMMAND_SLEEP)
  /\ ~is_failed(component_state)

\* the positions at which the delivered bytes differ from the frame sent
Damage(sent, got) == { i \in 1..Len(sent) : got[i] # sent[i] }

\* C7: when one byte (hi, lo or crc) of one group of a frame of 1 or 2 words
\* with correct checksums is changed to any other value, read_data_ reports
\* failure for the whole read and the completion decodes none of the words.
C7_DamagedFrameRejected ==
  (/\ last = "read_data_"
   /\ bus_in.code = ERROR_OK
   /\ Len(bus_in.bytes) = Len(frame)
   /\ Cardinality(Damage(frame, bus_in.bytes)) = 1
   /\ ~CrcMismatch([code |-> ERROR_OK, bytes |-> frame], Len(frame) \div 3))
    => /\ ~rd.ok
       /\ timeout_temperature(rd) = NAN
       /\ timeout_humidity(rd) = NAN

\* the low byte of word 1 of a 2-word frame was changed: word 0 was stored
\* and the read was rejected all the same
C7_Witness ==
  /\ last = "read_data_"
  /\ Len(frame) = 6
  /\ bus_in.code = ERROR_OK
  /\ Damage(frame, bus_in.bytes) = {5}
  /\ rd = [ok |-> FALSE, data |-> <<frame[1] * 256 + frame[2]>>]

\* C11: once setup has marked the component failed, no step is an update tick
\* or a completion: no command is sent, nothing is registered and nothing is
\* published from then on.
C11_FailedComponentIsSilent ==
  [][is_failed(component_state) =>
       /\ is_failed(component_state')
       /\ ticks' = ticks
       /\ timeouts_run' = timeouts_run
       /\ pending' = pending
       /\ trace' = trace
       /\ temperature_state' = temperature_state
       /\ humidity_state' = humidity_state]_vars

\* setup failed on the ID read; no tick has run and no sink has a state
C11_Witness ==
  /\ is_failed(component_state)
  /\ last = "setup"
  /\ Count(trace, "read") = 1
  /\ ticks = 0
  /\ pending = 0
  /\ ~temperature_state.has_state
  /\ ~humidity_state.has_state

\* C12: type_ and sensor_id_ are assigned only by a setup whose ReadID write
\* and ID read both succeeded (sensor_id_ is the word read); a failed setup,
\* an update tick and a completion leave both as they were.
C12_IdentityWriteOnce ==
  [][/\ (type_' # type_ \/ sensor_id_' # sensor_id_) =>
          /\ component_state = "CONSTRUCTION"
          /\ last' = "setup"
          /\ setup_ok'
          /\ ~WriteFailed(trace', SHTCX_COMMAND_READ_ID_REGISTER)
          /\ bus_in'.code = ERROR_OK
          /\ ~CrcMismatch(bus_in', 1)
          /\ sensor_id_' = BusWord(bus_in', 0)
     /\ (last' = "setup" /\ ~setup_ok') => (type_' = type_ /\ sensor_id_' = sensor_id_)
     /\ (ticks' # ticks \/ timeouts_run' # timeouts_run)
          => (type_' = type_ /\ sensor_id_' = sensor_id_)]_vars

\* a failed setup left an identity no successful setup assigns (0xFFFF does
\* not decode to SHTC1)
C12_Witness ==
  /\ last = "setup"
  /\ is_failed(component_state)
  /\ sensor_id_ = 65535
  /\ type_ = "SHTC1"

\* C13: for every 16-bit ID word r read in setup the variant is SHTC3 when
\* the low 6 bits of r are 0x07 and bit 11 is set, SHTC1 when they are 0x07
\* and bit 11 is clear, Unknown otherwise; sensor_id_ is r, and an Unknown
\* variant does not mark the component failed.
C13_IdentityDecode ==
  (last = "setup" /\ bus_in.code = ERROR_OK /\ ~CrcMismatch(bus_in, 1)) =>
    LET r == BusWord(bus_in, 0)
    IN /\ sensor_id_ = r
       /\ type_ = (IF r % 64 = 7
                     THEN (IF (r \div 2048) % 2 = 1 THEN "SHTC3" ELSE "SHTC1")
                     ELSE "UNKNOWN")
       /\ ~is_failed(component_state)
       /\ setup_ok

\* 0x0C06 has bits 10 and 11 set and low bits 0x06: Unknown, and not failed
C13_Witness ==
  /\ last = "setup"
  /\ sensor_id_ = 3078
  /\ type_ = "UNKNOWN"
  /\ component_state = "LOOP"

\* C14: a completion whose read succeeds with the two words the completion
\* before it read successfully publishes the values that one published, and
\* both finish with the warning flag cleared; what a successful completion
\* publishes is computed from its two words alone.
C14_SameWordsSameValues ==
  [][(timeouts_run' = timeouts_run + 1 /\ rd'.ok) =>
       /\ temperature_sensor_ =>
            temperature_state' = publish_state(decode_temperature(rd'.data[1]))
       /\ humidity_sensor_ =>
            humidity_state' = publish_state(decode_humidity(rd'.data[2]))
       /\ ~warning'
       /\ (cycle.ok /\ cycle.data = rd'.data) =>
            /\ temperature_state' = cycle.temperature
            /\ humidity_state' = cycle.humidity
            /\ ~cycle.warning
            /\ cycle'.repeated]_vars

C14_Witness ==
  /\ last = "timeout"
  /\ timeouts_run >= 2
  /\ cycle.ok
  /\ cycle.repeated
  /\ cycle.data = <<32768, 0>>
  /\ temperature_state = publish_state(decode_temperature(32768))
  /\ humidity_state = publish_state(decode_humidity(0))
  /\ ~warning

\* the CRC-8 with initial value 0xFF, polynomial x^8 + x^5 + x^4 + 1 (0x31),
\* most significant bit first, no final XOR, as a shift register fed one
\* message bit at a time: reg is the register, most significant bit first
Bits8(n) == [i \in 1..8 |-> (n \div (2 ^ (8 - i))) % 2 = 1]
Byte8(reg) ==
  (IF reg[1] THEN 128 ELSE 0) + (IF reg[2] THEN 64 ELSE 0)
    + (IF reg[3] THEN 32 ELSE 0) + (IF reg[4] THEN 16 ELSE 0)
    + (IF reg[5] THEN 8 ELSE 0) + (IF reg[6] THEN 4 ELSE 0)
    + (IF reg[7] THEN 2 ELSE 0) + (IF reg[8] THEN 1 ELSE 0)
Crc8Shift(reg, msg_bit) ==
  LET feedback == reg[1] # msg_bit
      taps == {3, 4, 8}                   \* reg[3] is x^5, reg[4] x^4, reg[8] x^0
  IN [i \in 1..8 |->
        LET shifted == IF i < 8 THEN reg[i + 1] ELSE FALSE
        IN IF i \in taps THEN shifted # feedback ELSE shifted]
RECURSIVE Crc8Feed(_, _)
Crc8Feed(reg, msg) ==
  IF msg = <<>> THEN reg ELSE Crc8Feed(Crc8Shift(reg, Head(msg)), Tail(msg))
Crc8Reference(a, b) ==
  Byte8(Crc8Feed(Bits8(255), Bits8(a) \o Bits8(b)))

\* C15: for every pair of bytes sht_crc returns the reference CRC-8
\* (polynomial 0x31, initial value 0xFF, most significant bit first, no final
\* XOR), the result is a byte, and (crc << 1) ^ 0x131 of a byte with bit 7 set,
\* like crc << 1 of a byte with bit 7 clear, has no bit above bit 7, so the
\* store in the uint8_t drops nothing.
C15_CrcIsReferenceCrc8 ==
  last = "sht_crc" =>
    /\ frame[3] = Crc8Reference(frame[1], frame[2])
    /\ frame[3] \in 0..255
    /\ \A c \in {frame[1], frame[2], frame[3]} :
         /\ crc_wide(c) \in 0..255
         /\ crc_step(c) = crc_wide(c)

\* the datasheet's vector: the checksum of 0xBE 0xEF is 0x92
C15_Witness ==
  /\ last = "sht_crc"
  /\ frame = <<190, 239, 146>>
  /\ Crc8Reference(190, 239) = 146

CountWrites(tr, command) ==
  Cardinality({ i \in 1..Len(tr) : IsWrite(tr[i], command) })

\* C16: an update tick sends SoftReset exactly when the warning flag was set
\* when the tick started, once and as its first command, before WakeUp and
\* the poll; whether that write is acknowledged or not, the tick goes on the
\* same way: WakeUp unless the variant is SHTC1, then the poll, whose answer
\* alone decides between the failure path and the registered completion.
C16_SoftResetOnWarning ==
  last = "update" =>
    LET sr == IF warning_before THEN 1 ELSE 0
        wk == IF type_ # "SHTC1" THEN 1 ELSE 0
        poll == sr + wk + 1
    IN /\ Sent(trace, SHTCX_COMMAND_SOFT_RESET) <=> warning_before
       /\ CountWrites(trace, SHTCX_COMMAND_SOFT_RESET) = sr
       /\ warning_before => IsWrite(trace[1], SHTCX_COMMAND_SOFT_RESET)
       /\ CountWrites(trace, SHTCX_COMMAND_WAKEUP) = wk
       /\ wk = 1 => IsWrite(trace[sr + 1], SHTCX_COMMAND_WAKEUP)
       /\ CountWrites(trace, SHTCX_COMMAND_POLLING_H) = 1
       /\ Len(trace) >= poll
       /\ IsWrite(trace[poll], SHTCX_COMMAND_POLLING_H)
       /\ poll_failed <=> ~trace[poll].ok
       /\ ~poll_failed =>
            /\ Len(trace) = poll + 1
            /\ trace[poll + 1] = Op("set_timeout", TIMEOUT_MS, TRUE)
       /\ poll_failed => warning /\ Count(trace, "set_timeout") = 0

\* the SoftReset write is not acknowledged, and the tick wakes the sensor,
\* polls and registers its completion all the same
C16_Witness ==
  /\ last = "update"
  /\ warning_before
  /\ WriteFailed(trace, SHTCX_COMMAND_SOFT_RESET)
  /\ type_ = "SHTC3"
  /\ Len(trace) = 4
  /\ IsWrite(trace[2], SHTCX_COMMAND_WAKEUP)
  /\ trace[3] = write_command_(SHTCX_COMMAND_POLLING_H, TRUE)
  /\ trace[4].op = "set_timeout"
  /\ pending > 0

\* C17: setup sends WakeUp, SoftReset and ReadID in that order, each once,
\* then reads one word (3 bytes) once, and only when the ReadID write was
\* acknowledged; when the read fails the component is marked failed and no
\* variant or identity is stored.
C17_SetupSequence ==
  [][last' = "setup" =>
       /\ Len(trace') \in {3, 4}
       /\ IsWrite(trace'[1], SHTCX_COMMAND_WAKEUP)
       /\ IsWrite(trace'[2], SHTCX_COMMAND_SOFT_RESET)
       /\ IsWrite(trace'[3], SHTCX_COMMAND_READ_ID_REGISTER)
       /\ CountWrites(trace', SHTCX_COMMAND_WAKEUP) = 1
       /\ CountWrites(trace', SHTCX_COMMAND_SOFT_RESET) = 1
       /\ CountWrites(trace', SHTCX_COMMAND_READ_ID_REGISTER) = 1
       /\ Count(trace', "write") = 3
       /\ Count(trace', "read") = (IF trace'[3].ok THEN 1 ELSE 0)
       /\ Len(trace') = 4 <=> trace'[3].ok
       /\ Len(trace') = 4 =>
            trace'[4] = Op("read", 3, bus_in'.code = ERROR_OK)
       /\ ~trace'[3].ok => (is_failed(component_state') /\ bus_in' = NoBus)
       /\ (Len(trace') = 4 /\ ReadFailed(bus_in', 1)) =>
            /\ is_failed(component_state')
            /\ ~setup_ok'
            /\ type_' = type_
            /\ sensor_id_' = sensor_id_]_vars

\* the ID read fails after three acknowledged writes
C17_Witness ==
  /\ last = "setup"
  /\ Len(trace) = 4
  /\ trace[1].ok /\ trace[2].ok /\ trace[3].ok
  /\ trace[4].op = "read"
  /\ ReadFailed(bus_in, 1)
  /\ is_failed(component_state)

\* C18: read_data_ for n = 1 or 2 words asks the transport for 3 * n bytes in
\* one read; it succeeds exactly when the transport reports no error and the
\* third byte of every 3-byte group is sht_crc of the group's first two; on
\* success word i is (hi << 8) | lo of group i, in the order of the frame.
C18_ReadDataFraming ==
  last = "read_data_" =>
    LET n == Len(frame) \div 3
        buf == bus_in.bytes
    IN /\ n \in {1, 2}
       /\ trace = <<Op("read", 3 * n, bus_in.code = ERROR_OK)>>
       /\ rd.ok <=>
            /\ bus_in.code = ERROR_OK
            /\ \A g \in 1..n : buf[3 * g] = sht_crc(buf[3 * g - 2], buf[3 * g - 1])
       /\ rd.ok =>
            /\ Len(rd.data) = n
            /\ \A g \in 1..n : rd.data[g] = buf[3 * g - 2] * 256 + buf[3 * g - 1]

\* the frame BE EF 92 EF BE .. read as the words 0xBEEF, 0xEFBE
C18_Witness ==
  /\ last = "read_data_"
  /\ rd.ok
  /\ bus_in.bytes[1] = 190 /\ bus_in.bytes[2] = 239 /\ bus_in.bytes[3] = 146
  /\ rd.data = <<48879, 61374>>

\* publish_state calls a step makes on a sink that is present or not
Published(present, n) == IF present THEN n ELSE 0

\* C19: each update tick leads to one publish on each present sink: the NAN
\* of the tick itself when the poll write fails, the value of the tick's
\* completion otherwise, never both; the publishes made and the completions
\* still pending add up to the ticks, and again and again every tick has had
\* its publish.  An absent sink is never published to, and what the other
\* sink receives and the warning flag are the same with or without it.
C19_OnePublishPerTick ==
  /\ [](/\ published_temperature = Published(temperature_sensor_, ticks - pending)
        /\ published_humidity = Published(humidity_sensor_, ticks - pending)
        /\ ~temperature_sensor_ => temperature_state = NoState
        /\ ~humidity_sensor_ => humidity_state = NoState)
  /\ [][/\ (ticks' = ticks + 1 /\ poll_failed') =>
             /\ published_temperature' =
                  published_temperature + Published(temperature_sensor_, 1)
             /\ published_humidity' =
                  published_humidity + Published(humidity_sensor_, 1)
             /\ temperature_sensor_ => temperature_state' = publish_state(NAN)
             /\ humidity_sensor_ => humidity_state' = publish_state(NAN)
             /\ Count(trace', "publish_temperature") = Published(temperature_sensor_, 1)
             /\ Count(trace', "publish_humidity") = Published(humidity_sensor_, 1)
             /\ pending' = pending
             /\ warning'
        /\ (ticks' = ticks + 1 /\ ~poll_failed') =>
             /\ published_temperature' = published_temperature
             /\ published_humidity' = published_humidity
             /\ temperature_state' = temperature_state
             /\ humidity_state' = humidity_state
             /\ Count(trace', "publish_temperature") = 0
             /\ Count(trace', "publish_humidity") = 0
             /\ pending' = pending + 1
             /\ warning' = warning
        /\ (timeouts_run' = timeouts_run + 1) =>
             /\ published_temperature' =
                  published_temperature + Published(temperature_sensor_, 1)
             /\ published_humidity' =
                  published_humidity + Published(humidity_sensor_, 1)
             /\ temperature_sensor_ =>
                  temperature_state' = publish_state(timeout_temperature(rd'))
             /\ humidity_sensor_ =>
                  humidity_state' = publish_state(timeout_humidity(rd'))
             /\ Count(trace', "publish_temperature") = Published(temperature_sensor_, 1)
             /\ Count(trace', "publish_humidity") = Published(humidity_sensor_, 1)
             /\ pending' = pending - 1
             /\ ~warning'
        /\ (ticks' = ticks /\ timeouts_run' = timeouts_run) =>
             /\ published_temperature' = published_temperature
             /\ published_humidity' = published_humidity]_vars
  /\ []<>(/\ published_temperature = Published(temperature_sensor_, ticks)
          /\ published_humidity = Published(humidity_sensor_, ticks))

\* no temperature sink: of two ticks one published NAN to the humidity sink
\* itself, the other's completion published a value, and the warning flag was
\* set and cleared as with both sinks
C19_Witness ==
  /\ ~temperature_sensor_
  /\ humidity_sensor_
  /\ ticks = 2
  /\ polls_ok = 1
  /\ timeouts_run = 1
  /\ pending = 0
  /\ published_humidity = 2
  /\ published_temperature = 0
  /\ temperature_state = NoState
  /\ last = "timeout"
  /\ rd.ok
  /\ humidity_state = publish_state(decode_humidity(rd.data[2]))
  /\ ~warning

\* C20: Sleep is sent by a completion only, once and as its last operation;
\* setup and update send none.  On a variant other than SHTC1 an update tick
\* whose poll write fails has sent WakeUp and no Sleep and registers no
\* completion, so no Sleep follows that WakeUp before a completion of another
\* tick runs.
C20_SleepOnlyEndsCompletion ==
  /\ [](/\ last \in {"setup", "update"} => ~Sent(trace, SHTCX_COMMAND_SLEEP)
        /\ (last = "timeout" /\ Sent(trace, SHTCX_COMMAND_SLEEP)) =>
             /\ IsWrite(trace[Len(trace)], SHTCX_COMMAND_SLEEP)
             /\ CountWrites(trace, SHTCX_COMMAND_SLEEP) = 1
        /\ (last = "update" /\ poll_failed /\ type_ # "SHTC1") =>
             /\ Sent(trace, SHTCX_COMMAND_WAKEUP)
             /\ FirstWrite(trace, SHTCX_COMMAND_WAKEUP)
                  < FirstWrite(trace, SHTCX_COMMAND_POLLING_H)
             /\ Count(trace, "set_timeout") = 0)
  /\ [][/\ Sent(trace', SHTCX_COMMAND_SLEEP) =>
             (timeouts_run' = timeouts_run + 1 /\ pending > 0)
        /\ (ticks' = ticks + 1 /\ poll_failed') => pending' = pending]_vars

\* an SHTC3 woken by a tick whose poll failed, with no completion registered
\* that would put it to sleep
C20_Witness ==
  /\ last = "update"
  /\ poll_failed
  /\ type_ = "SHTC3"
  /\ Sent(trace, SHTCX_COMMAND_WAKEUP)
  /\ WriteFailed(trace, SHTCX_COMMAND_POLLING_H)
  /\ ~Sent(trace, SHTCX_COMMAND_SLEEP)
  /\ pending = 0
  /\ timeouts_run = 0

====
